---- MODULE Spec2Model ----
(***************************************************************************)
(* A model of the FunKey menu (menu.cpp) and of its driver (main.c).       *)
(*                                                                         *)
(* The state is the file-scope statics of menu.cpp, the locals of          *)
(* FK_RunMenu while a session is open, the SDL event queue, and the parts  *)
(* of the outside world the menu acts on (file-system mode, key repeat).   *)
(* One step of the model is one call of the API, one event handled by the  *)
(* drain loop, one scroll-and-render step of a frame, or one evaluation of *)
(* the main loop's condition.                                              *)
(*                                                                         *)
(* Indices (menuItem, prevItem, savestate_slot, ...) are 0-based as in the *)
(* code; idx_menus is a TLA+ sequence, so Zone(i) reads idx_menus[i + 1].  *)
(***************************************************************************)
EXTENDS Integers, Sequences, FiniteSets, TLC

(***************************************************************************)
(* Program constants                                                       *)
(***************************************************************************)
SCROLL_SPEED_PX == 30
MENU_ZONE_HEIGHT == 240
MAX_SAVE_SLOTS == 9
\* menu.h is not part of the sources: the step is the one of the
\* specification's scenario ("volume at 40%, step 10").
STEP_CHANGE_VOLUME == 10
STEP_CHANGE_BRIGHTNESS == 10
\* menu.h: the number of entries of the ASPECT_RATIOS list, and the initial
\* selection ASPECT_RATIOS_TYPE_STRECHED.
NB_ASPECT_RATIOS_TYPES == 4
ASPECT_RATIOS_TYPE_STRECHED == 1

MENU_RETURN_OK == "OK"
MENU_RETURN_EXIT == "EXIT"
MENU_RETURN_ERROR == "ERROR"

(***************************************************************************)
(* Bounds of the model                                                     *)
(***************************************************************************)
\* events that may wait in the SDL queue
MaxQueue == 1
\* calls of FK_InitMenu without FK_EndMenu in between (main.c never ends)
MaxInits == 2
\* layouts the configuration may hold
MaxLayouts == 2
\* events that may wait in the SDL queue where several events are drained
\* in one frame
MaxDrainQueue == 3
\* the largest bar count and the largest width draw_progress_bar is asked for
MaxBars == 8
MaxBarWidth == 20

(***************************************************************************)
(* Zone types and compile-time configurations                              *)
(***************************************************************************)
\* init_menu_zones: the fixed registration order
RegistrationOrder ==
    << "VOLUME", "BRIGHTNESS", "SAVE", "LOAD", "ASPECT_RATIO", "RO_RW",
       "EXIT", "USB", "THEME", "LAUNCHER", "POWERDOWN" >>

ZoneTypes == { RegistrationOrder[i] : i \in 1..Len(RegistrationOrder) }

\* The HAS_MENU_* sets the model is explored for: every zone type is in one
\* of them, USB is the only, the first, the middle and the last zone, Save
\* comes with and without Load.
Configs ==
    { {"USB"},
      {"EXIT", "USB", "LAUNCHER"},
      {"USB", "THEME", "POWERDOWN"},
      {"SAVE", "USB"},
      {"SAVE", "LOAD"},
      {"VOLUME"},
      {"BRIGHTNESS"},
      {"ASPECT_RATIO"},
      {"RO_RW"} }

\* The sets main.c is explored for (it calls FK_InitMenu(), which exists
\* only when HAS_MENU_THEME is not defined).
MainConfigs == { {"EXIT", "USB"} }

\* SDL events: the quit signal and the key-down events of the keys the
\* menu binds (b; q or Escape; d or Down; u or Up; l or Left; r or Right;
\* a or Return) and of any other key.
Events == { "QUIT", "B", "ESCAPE", "DOWN", "UP", "LEFT", "RIGHT", "A", "OTHER" }

\* What a query command can print: nothing, text, or a number and a newline.
QueryOutputs ==
    { << >>, << "e", "r", "r" >>, << "4", "0", "\n" >>, << "1", "2", "0", "\n" >> }

\* What the uninitialised buffer res[] may hold before the first fgets.
GarbageRes == { << "?" >>, << "7", "0" >> }

Digits == << "0", "1", "2", "3", "4", "5", "6", "7", "8", "9" >>

VARIABLES
    driver,                \* "main": main.c drives the menu; "lib": a caller of the API
    enabled,               \* the zone types whose HAS_MENU_* is defined
    layouts,               \* config->layouts_.size()
    idx_menus,             \* the zone list
    menuItem,
    stop_menu_loop,
    volume_percentage,
    brightness_percentage,
    aspect_ratio,
    indexChooseLayout,
    savestate_slot,
    usb_data_connected,
    usb_sharing,
    read_write,
    background_screen,     \* "NULL" or "surface"
    backup_key_repeat,     \* backup_key_repeat_delay / _interval
    pc,                    \* where the program is
    prevItem,
    scroll,
    start_scroll,
    screen_refresh,
    menu_confirmation,
    returnCode,
    exit,                  \* main.c: exit
    queue,                 \* the SDL event queue
    key_repeat,            \* SDL's key repeat setting: "app" or "menu"
    fs_mode,               \* mode of the file system: "RO" or "RW"
    ev,                    \* the event the last step handled in the menu ("none": none)
    cmd,                   \* external commands issued by the last step
    refresh,               \* calls of menu_screen_refresh made by the last step
    frames,                \* frames since the running scroll started
    lastReturn,            \* what the last FK_RunMenu returned ("none": running)
    bar                    \* a call of draw_progress_bar: its arguments and what it drew

statics == << idx_menus, menuItem, stop_menu_loop, volume_percentage,
              brightness_percentage, aspect_ratio, indexChooseLayout,
              savestate_slot, usb_data_connected, usb_sharing, read_write,
              background_screen, backup_key_repeat >>
locals == << pc, prevItem, scroll, start_scroll, screen_refresh,
             menu_confirmation, returnCode >>
world == << driver, enabled, layouts, exit, queue, key_repeat, fs_mode >>
drawing == << bar >>
observed == << ev, cmd, refresh, frames, lastReturn >>
vars == << statics, locals, world, observed, drawing >>

(***************************************************************************)
(* Helpers                                                                 *)
(***************************************************************************)
MIN(a, b) == IF a < b THEN a ELSE b

Has(t) == t \in enabled

nb_menu_zones == Len(idx_menus)

\* idx_menus[i]; outside the list there is no zone type to read
Zone(i) == IF i + 1 \in DOMAIN idx_menus THEN idx_menus[i + 1] ELSE "none"

\* the zones init_menu_zones adds for a configuration
InitMenuZones(en) == SelectSeq(RegistrationOrder, LAMBDA t : t \in en)

IsDigit(c) == \E i \in 1..10 : Digits[i] = c

DigitValue(c) == (CHOOSE i \in 1..10 : Digits[i] = c) - 1

\* atoi on a buffer whose first character is a digit: the leading digits
RECURSIVE AtoiFrom(_, _)
AtoiFrom(s, acc) ==
    IF s = << >> \/ ~IsDigit(Head(s))
    THEN acc
    ELSE AtoiFrom(Tail(s), acc * 10 + DigitValue(Head(s)))

atoi(s) == AtoiFrom(s, 0)

\* fgets: an empty output leaves the buffer as it was
fgets(res, out) == IF out = << >> THEN res ELSE out

\* init_menu_system_values: the value read from a query.  run says whether
\* popen succeeded, res is the buffer after fgets.
QueryValue(run, res) ==
    IF ~run THEN 50
    ELSE IF res = << >> \/ ~IsDigit(Head(res)) THEN 50
    ELSE atoi(res)


(***************************************************************************)
(* draw_progress_bar (its horizontal geometry)                             *)
(***************************************************************************)
\* uint16_t line_width = 1, padding_bars_ratio = 3
line_width == 1
padding_bars_ratio == 3

\* widths of the destination surface and values of x the function is
\* explored for: x inside and beyond the surface
BarSurfaceWidths == { 4, 13, 32 }
BarXs == { 0, 40 }

\* conversion to uint16_t
U16(v) == v % 65536

\* a percentage used as it was passed
BarPercentageRaw(p) == p

\* percentage = (percentage > 100) ? 100 : percentage
BarPercentage(p) == IF p > 100 THEN 100 ELSE p

\* x = (x > (surface->w - 1)) ? (surface->w - 1) : x
BarX(sw, x) == IF x > sw - 1 THEN U16(sw - 1) ELSE x

\* width = (width < line_width * 2 + 1) ? (line_width * 2 + 1) : width;
\* width = (width > surface->w - x - 1) ? (surface->w - x - 1) : width
BarWidth(sw, x, width) ==
    LET w1 == IF width < line_width * 2 + 1 THEN line_width * 2 + 1 ELSE width
    IN  IF w1 > sw - BarX(sw, x) - 1 THEN U16(sw - BarX(sw, x) - 1) ELSE w1

\* (width * padding_bars_ratio / (line_width * 2 + 1) + 1)
\*    / (padding_bars_ratio + 1)
nb_bars_max(width) ==
    U16((((width * padding_bars_ratio) \div (line_width * 2 + 1)) + 1)
        \div (padding_bars_ratio + 1))

\* nb_bars = (nb_bars > nb_bars_max) ? nb_bars_max : nb_bars
BarCount(nb, width) ==
    IF nb > nb_bars_max(width) THEN nb_bars_max(width) ELSE nb

\* (width / nb_bars) * padding_bars_ratio / (padding_bars_ratio + 1) + 1
bar_width(width, nb) ==
    U16((((width \div nb) * padding_bars_ratio)
         \div (padding_bars_ratio + 1)) + 1)

\* bar_width / padding_bars_ratio
bar_padding_x(bw) == bw \div padding_bars_ratio

\* nb_bars * percentage / 100
nb_full_bars(nb, p) == U16((nb * p) \div 100)

\* The rectangles the two loops fill, in order: one per solid bar, then a
\* frame and its inner rectangle per hollow bar.  x is the left edge and w
\* the width of a rectangle.
BarRects(x, width, nb, p) ==
    LET bw == bar_width(width, nb)
        pad == bar_padding_x(bw)
        full == nb_full_bars(nb, BarPercentage(p))
        empty == IF nb - full > 0 THEN nb - full ELSE 0
        solid == [ k \in 1..full |->
                     [ kind |-> "solid", x |-> x + (k - 1) * (bw + pad),
                       w |-> bw ] ]
        hollow == [ k \in 1..(2 * empty) |->
                      LET i == (k - 1) \div 2
                          left == x + i * (bw + pad) + full * (bw + pad)
                      IN  IF k % 2 = 1
                          THEN [ kind |-> "frame", x |-> left, w |-> bw ]
                          ELSE [ kind |-> "inner", x |-> left + line_width,
                                 w |-> U16(bw - line_width * 2) ] ]
    IN  solid \o hollow

\* The variable bar where no call of draw_progress_bar is followed.  Its
\* fields: the arguments of the call (surface_w is surface->w), the clamped
\* values the function computes (c_x, c_width, c_nb_bars) and the
\* rectangles it filled.
NoBar == [ at |-> "none", surface_w |-> 0, x |-> 0, width |-> 0,
           percentage |-> 0, nb_bars |-> 0, c_x |-> 0, c_width |-> 0,
           c_nb_bars |-> 0, drawn |-> << >> ]

\* The arguments of a call; percentage is a uint8_t, x, width and nb_bars
\* are uint16_t.
BarCalls ==
    [ at : { "called" }, surface_w : BarSurfaceWidths, x : BarXs,
      width : 0..MaxBarWidth, percentage : 0..255, nb_bars : 0..MaxBars,
      c_x : { 0 }, c_width : { 0 }, c_nb_bars : { 0 }, drawn : { << >> } ]

(***************************************************************************)
(* Construction                                                            *)
(***************************************************************************)
\* The statics at their initialisers, no session open, nothing queued.
Initialisers ==
    /\ idx_menus = << >>
    /\ menuItem = 0
    /\ stop_menu_loop = 0
    /\ volume_percentage = 0
    /\ brightness_percentage = 0
    /\ aspect_ratio = ASPECT_RATIOS_TYPE_STRECHED
    /\ indexChooseLayout = 0
    /\ savestate_slot = 0
    /\ usb_data_connected = 0
    /\ usb_sharing = 0
    /\ read_write = 0
    /\ background_screen = "NULL"
    /\ backup_key_repeat = "none"
    /\ pc = "app"
    /\ prevItem = 0
    /\ scroll = 0
    /\ start_scroll = 0
    /\ screen_refresh = 0
    /\ menu_confirmation = 0
    /\ returnCode = MENU_RETURN_OK
    /\ exit = 0
    /\ queue = << >>
    /\ key_repeat = "app"
    /\ ev = "none"
    /\ cmd = << >>
    /\ refresh = << >>
    /\ frames = 0
    /\ lastReturn = "none"

\* The static initialisers of menu.cpp and the state of main before its loop.
Init ==
    /\ \/ driver = "lib" /\ enabled \in Configs
       \/ driver = "main" /\ enabled \in MainConfigs
    /\ layouts \in 1..MaxLayouts
    /\ ("THEME" \notin enabled => layouts = 1)
    /\ fs_mode \in { "RO", "RW" }
    /\ ("RO_RW" \notin enabled => fs_mode = "RO")
    /\ Initialisers
    /\ bar = NoBar

\* The locals of FK_RunMenu do not exist outside a session: they are given
\* fixed values when FK_RunMenu returns.
LocalsGone ==
    /\ prevItem' = 0
    /\ scroll' = 0
    /\ start_scroll' = 0
    /\ screen_refresh' = 0
    /\ menu_confirmation' = 0
    /\ returnCode' = MENU_RETURN_OK

\* A step that issues no command and draws nothing.
Quiet == cmd' = << >> /\ refresh' = << >>

\* A step that handles no event of the menu.
NoEvent == ev' = "none"

(***************************************************************************)
(* The environment: an event is queued                                     *)
(***************************************************************************)
\* Events are posted while the application polls, while the menu drains the
\* queue and while it scrolls.  An event posted between the end of a drain
\* and the next call of SDL_PollEvent is seen by the program as one posted
\* at that call, so these steps are not modelled apart.
Arrive ==
    /\ NoEvent
    /\ pc \in { "app", "poll" } \/ scroll # 0
    /\ Len(queue) < MaxQueue
    /\ \E e \in Events : queue' = Append(queue, e)
    /\ Quiet
    /\ UNCHANGED << statics, locals, driver, enabled, layouts, bar, exit,
                    key_repeat, fs_mode, frames, lastReturn >>

(***************************************************************************)
(* FK_InitMenu, FK_EndMenu                                                 *)
(***************************************************************************)
\* What system() returns: -1 when no child process could be created,
\* otherwise the termination status of the command, 0 when it succeeded;
\* 1 stands for every status of a command that ran and failed.
SystemResults == { -1, 0, 1 }

\* system(SHELL_CMD_RO): the mode of the file system after the command
RunRO(st) == IF st = 0 THEN "RO" ELSE fs_mode

\* FK_InitMenu: the read-only command when HAS_MENU_RO_RW, then
\* init_menu_zones, each add_menu_zone appending to the list.
InitMenuBody(st) ==
    /\ idx_menus' = idx_menus \o InitMenuZones(enabled)
    /\ fs_mode' = IF Has("RO_RW") THEN RunRO(st) ELSE fs_mode
    /\ cmd' = IF Has("RO_RW") THEN << << "RO", st >> >> ELSE << >>
    /\ refresh' = << >>

FK_InitMenu ==
    /\ NoEvent
    /\ driver = "lib"
    /\ pc = "app"
    /\ idx_menus = << >>
    /\ \E st \in SystemResults : InitMenuBody(st)
    /\ UNCHANGED << menuItem, stop_menu_loop, volume_percentage,
                    brightness_percentage, aspect_ratio, indexChooseLayout,
                    savestate_slot, usb_data_connected, usb_sharing, read_write,
                    background_screen, backup_key_repeat, locals, driver,
                    enabled, layouts, bar, exit, queue, key_repeat, frames,
                    lastReturn >>

\* FK_EndMenu: the list is freed and nb_menu_zones reset; menuItem and the
\* per-zone values are kept.
FK_EndMenu ==
    /\ NoEvent
    /\ driver = "lib"
    /\ pc = "app"
    /\ idx_menus # << >>
    /\ idx_menus' = << >>
    /\ \E st \in SystemResults :
          /\ fs_mode' = IF Has("RO_RW") THEN RunRO(st) ELSE fs_mode
          /\ cmd' = IF Has("RO_RW") THEN << << "RO", st >> >> ELSE << >>
    /\ refresh' = << >>
    /\ UNCHANGED << menuItem, stop_menu_loop, volume_percentage,
                    brightness_percentage, aspect_ratio, indexChooseLayout,
                    savestate_slot, usb_data_connected, usb_sharing, read_write,
                    background_screen, backup_key_repeat, locals, driver,
                    enabled, layouts, bar, exit, queue, key_repeat, frames,
                    lastReturn >>

(***************************************************************************)
(* main.c                                                                  *)
(***************************************************************************)
\* case SDL_QUIT: exit = 1; break;
MainQuit ==
    /\ NoEvent
    /\ driver = "main"
    /\ pc = "app"
    /\ queue # << >>
    /\ Head(queue) = "QUIT"
    /\ queue' = Tail(queue)
    /\ exit' = 1
    /\ Quiet
    /\ UNCHANGED << statics, locals, driver, enabled, layouts, bar, key_repeat,
                    fs_mode, frames, lastReturn >>

\* case SDL_KEYDOWN: Escape sets exit; there is no break, so control falls
\* into the next case, which calls FK_InitMenu() and then FK_RunMenu().
MainKeyDown ==
    /\ NoEvent
    /\ driver = "main"
    /\ pc = "app"
    /\ queue # << >>
    /\ Head(queue) # "QUIT"
    /\ Len(idx_menus) < MaxInits * Cardinality(enabled)
    /\ queue' = Tail(queue)
    /\ exit' = IF Head(queue) = "ESCAPE" THEN 1 ELSE exit
    /\ \E st \in SystemResults : InitMenuBody(st)
    /\ pc' = "run"
    /\ UNCHANGED << menuItem, stop_menu_loop, volume_percentage,
                    brightness_percentage, aspect_ratio, indexChooseLayout,
                    savestate_slot, usb_data_connected, usb_sharing, read_write,
                    background_screen, backup_key_repeat, prevItem, scroll,
                    start_scroll, screen_refresh, menu_confirmation, returnCode,
                    driver, enabled, layouts, bar, key_repeat, frames, lastReturn >>

\* while (!exit): the queue is drained, a frame is drawn, the condition read.
MainLoopEnd ==
    /\ NoEvent
    /\ driver = "main"
    /\ pc = "app"
    /\ queue = << >>
    /\ exit = 1
    /\ pc' = "exited"
    /\ Quiet
    /\ UNCHANGED << statics, prevItem, scroll, start_scroll, screen_refresh,
                    menu_confirmation, returnCode, world, bar, frames,
                    lastReturn >>


(***************************************************************************)
(* FK_RunMenu: the prologue                                                *)
(***************************************************************************)
\* a query: popen fails, or the command runs and prints out
NoQuery == [ run |-> FALSE, out |-> << >> ]

QueryResults == { NoQuery } \cup { [ run |-> TRUE, out |-> o ] : o \in QueryOutputs }

\* init_menu_system_values, USB part: sharing is forced off when USB is not
\* connected
UsbSharingAtStart(conn, sharing) == IF conn = 0 THEN 0 ELSE sharing

\* a session start that keeps a remembered USB zone when USB is not connected
MenuItemAtStartNoReset(m, conn, sharing) ==
    LET m1 == m
        usb == { i \in 0..(nb_menu_zones - 1) : Zone(i) = "USB" }
    IN  IF UsbSharingAtStart(conn, sharing) # 0 /\ usb # {}
        THEN CHOOSE i \in usb : \A j \in usb : i <= j
        ELSE m1

\* init_menu_system_values, USB part: the zone selected when the loop starts
MenuItemAtStart(m, conn, sharing) ==
    LET m1 == IF conn = 0 /\ Zone(m) = "USB" THEN 0 ELSE m
        usb == { i \in 0..(nb_menu_zones - 1) : Zone(i) = "USB" }
    IN  IF UsbSharingAtStart(conn, sharing) # 0 /\ usb # {}
        THEN CHOOSE i \in usb : \A j \in usb : i <= j
        ELSE m1

\* the query commands init_menu_system_values runs, each with whether popen
\* succeeded and what the command printed
QueryCommands(volIn, briIn) ==
    (IF Has("VOLUME") THEN << << "VOLUME_GET", volIn.run, volIn.out >> >>
     ELSE << >>)
    \o (IF Has("BRIGHTNESS")
        THEN << << "BRIGHTNESS_GET", briIn.run, briIn.out >> >>
        ELSE << >>)

\* a session start that enters the main loop without the snapshot
RunMenuStartAnyway(volIn, briIn, garbage, conn, sharing, cur, alloc) ==
    LET res1 == IF Has("VOLUME") /\ volIn.run THEN fgets(garbage, volIn.out)
                ELSE garbage
        res2 == IF Has("BRIGHTNESS") /\ briIn.run THEN fgets(res1, briIn.out)
                ELSE res1
    IN
    /\ NoEvent
    /\ stop_menu_loop' = 0
    /\ indexChooseLayout' = IF Has("THEME") THEN cur ELSE indexChooseLayout
    /\ volume_percentage' =
          IF Has("VOLUME") THEN QueryValue(volIn.run, res1)
          ELSE volume_percentage
    /\ brightness_percentage' =
          IF Has("BRIGHTNESS") THEN QueryValue(briIn.run, res2)
          ELSE brightness_percentage
    /\ usb_data_connected' = IF Has("USB") THEN conn ELSE usb_data_connected
    /\ usb_sharing' =
          IF Has("USB") THEN UsbSharingAtStart(conn, sharing) ELSE usb_sharing
    /\ menuItem' =
          IF Has("USB") THEN MenuItemAtStart(menuItem, conn, sharing)
          ELSE menuItem
    /\ backup_key_repeat' = key_repeat
    /\ key_repeat' = "menu"
    /\ savestate_slot' =
          IF Has("SAVE") \/ Has("LOAD") THEN savestate_slot % MAX_SAVE_SLOTS
          ELSE savestate_slot
    /\ cmd' = QueryCommands(volIn, briIn)
    /\ refresh' = << >>
    /\ frames' = 0
    /\ IF alloc
       THEN /\ background_screen' = "surface"
            /\ pc' = "top"
            /\ prevItem' = menuItem'
            /\ scroll' = 0
            /\ start_scroll' = 0
            /\ screen_refresh' = 1
            /\ menu_confirmation' = 0
            /\ returnCode' = MENU_RETURN_OK
            /\ lastReturn' = "none"
       ELSE /\ background_screen' = "NULL"
            /\ pc' = "top"
            /\ prevItem' = menuItem'
            /\ scroll' = 0
            /\ start_scroll' = 0
            /\ screen_refresh' = 1
            /\ menu_confirmation' = 0
            /\ returnCode' = MENU_RETURN_OK
            /\ lastReturn' = "none"
    /\ UNCHANGED << idx_menus, aspect_ratio, read_write, driver, enabled,
                    layouts, bar, exit, queue, fs_mode >>

\* FK_RunMenu up to the main loop.  volIn and briIn are what the query
\* commands give, garbage is the content of
\* res[] before the first fgets, conn and sharing are the results of the two
\* USB commands, cur is config->currentLayoutIdx_, alloc says whether
\* SDL_CreateRGBSurface succeeded.
RunMenuStart(volIn, briIn, garbage, conn, sharing, cur, alloc) ==
    LET res1 == IF Has("VOLUME") /\ volIn.run THEN fgets(garbage, volIn.out)
                ELSE garbage
        res2 == IF Has("BRIGHTNESS") /\ briIn.run THEN fgets(res1, briIn.out)
                ELSE res1
    IN
    /\ NoEvent
    /\ stop_menu_loop' = 0
    /\ indexChooseLayout' = IF Has("THEME") THEN cur ELSE indexChooseLayout
    /\ volume_percentage' =
          IF Has("VOLUME") THEN QueryValue(volIn.run, res1)
          ELSE volume_percentage
    /\ brightness_percentage' =
          IF Has("BRIGHTNESS") THEN QueryValue(briIn.run, res2)
          ELSE brightness_percentage
    /\ usb_data_connected' = IF Has("USB") THEN conn ELSE usb_data_connected
    /\ usb_sharing' =
          IF Has("USB") THEN UsbSharingAtStart(conn, sharing) ELSE usb_sharing
    /\ menuItem' =
          IF Has("USB") THEN MenuItemAtStart(menuItem, conn, sharing)
          ELSE menuItem
    /\ backup_key_repeat' = key_repeat
    /\ key_repeat' = "menu"
    /\ savestate_slot' =
          IF Has("SAVE") \/ Has("LOAD") THEN savestate_slot % MAX_SAVE_SLOTS
          ELSE savestate_slot
    /\ cmd' = QueryCommands(volIn, briIn)
    /\ refresh' = << >>
    /\ frames' = 0
    /\ IF alloc
       THEN /\ background_screen' = "surface"
            /\ pc' = "top"
            /\ prevItem' = menuItem'
            /\ scroll' = 0
            /\ start_scroll' = 0
            /\ screen_refresh' = 1
            /\ menu_confirmation' = 0
            /\ returnCode' = MENU_RETURN_OK
            /\ lastReturn' = "none"
       ELSE /\ background_screen' = "NULL"
            /\ pc' = "app"
            /\ lastReturn' = MENU_RETURN_ERROR
            /\ LocalsGone
    /\ UNCHANGED << idx_menus, aspect_ratio, read_write, driver, enabled,
                    layouts, bar, exit, queue, fs_mode >>

FK_RunMenu ==
    /\ \/ driver = "main" /\ pc = "run"
       \/ driver = "lib" /\ pc = "app" /\ idx_menus # << >>
    /\ \E volIn \in (IF Has("VOLUME") THEN QueryResults ELSE { NoQuery }),
          briIn \in (IF Has("BRIGHTNESS") THEN QueryResults ELSE { NoQuery }),
          garbage \in GarbageRes,
          conn \in (IF Has("USB") THEN { 0, 1 } ELSE { 0 }),
          sharing \in (IF Has("USB") THEN { 0, 1 } ELSE { 0 }),
          cur \in 0..(layouts - 1),
          alloc \in BOOLEAN :
          RunMenuStart(volIn, briIn, garbage, conn, sharing, cur, alloc)

(***************************************************************************)
(* FK_RunMenu: the main loop                                               *)
(***************************************************************************)
\* what no step of a running session changes
SessionFrame ==
    UNCHANGED << idx_menus, usb_data_connected, driver, enabled, layouts, bar, exit >>

\* while (!stop_menu_loop) holds: the frame starts.  Events are polled only
\* if (!scroll).
LoopContinue ==
    /\ NoEvent
    /\ pc = "top"
    /\ stop_menu_loop = 0
    /\ pc' = IF scroll = 0 THEN "poll" ELSE "step"
    /\ frames' = IF scroll = 0 THEN 0 ELSE frames
    /\ Quiet
    /\ SessionFrame
    /\ UNCHANGED << menuItem, stop_menu_loop, volume_percentage,
                    brightness_percentage, aspect_ratio, indexChooseLayout,
                    savestate_slot, usb_sharing, read_write, background_screen,
                    backup_key_repeat, prevItem, scroll, start_scroll,
                    screen_refresh, menu_confirmation, returnCode, queue,
                    key_repeat, fs_mode, lastReturn >>

\* The loop has stopped: key repeat restored, the background blitted back and
\* freed, returnCode returned.
LoopExit ==
    /\ NoEvent
    /\ pc = "top"
    /\ stop_menu_loop # 0
    /\ key_repeat' = backup_key_repeat
    /\ background_screen' = "NULL"
    /\ lastReturn' = returnCode
    /\ pc' = "app"
    /\ LocalsGone
    /\ Quiet
    /\ SessionFrame
    /\ UNCHANGED << menuItem, stop_menu_loop, volume_percentage,
                    brightness_percentage, aspect_ratio, indexChooseLayout,
                    savestate_slot, usb_sharing, read_write, backup_key_repeat,
                    queue, fs_mode, frames >>

\* SDL_PollEvent returns 0: the drain loop ends.
PollEmpty ==
    /\ NoEvent
    /\ pc = "poll"
    /\ queue = << >>
    /\ pc' = "step"
    /\ Quiet
    /\ SessionFrame
    /\ UNCHANGED << menuItem, stop_menu_loop, volume_percentage,
                    brightness_percentage, aspect_ratio, indexChooseLayout,
                    savestate_slot, usb_sharing, read_write, background_screen,
                    backup_key_repeat, prevItem, scroll, start_scroll,
                    screen_refresh, menu_confirmation, returnCode, queue,
                    key_repeat, fs_mode, frames, lastReturn >>

\* SDL_PollEvent returns event e
Polled(e) ==
    /\ pc = "poll"
    /\ queue # << >>
    /\ Head(queue) = e
    /\ queue' = Tail(queue)
    /\ ev' = e

\* what no event handler changes (the confirmed powerdown apart, which
\* returns from FK_RunMenu)
HandlerFrame ==
    /\ SessionFrame
    /\ UNCHANGED << background_screen, backup_key_repeat, key_repeat, frames >>

InLoop == UNCHANGED << pc, prevItem, scroll, lastReturn >>

\* one call of menu_screen_refresh with the arguments of the call site
Refresh(action) ==
    [ menuItem |-> menuItem, prevItem |-> prevItem, scroll |-> scroll,
      menu_confirmation |-> menu_confirmation, menu_action |-> action,
      zone |-> Zone(menuItem) ]

\* an SDL_QUIT that stops the loop and leaves the return code
HandleQuitOk ==
    /\ Polled("QUIT")
    /\ stop_menu_loop' = 1
    /\ UNCHANGED returnCode
    /\ Quiet
    /\ HandlerFrame
    /\ InLoop
    /\ UNCHANGED << menuItem, volume_percentage, brightness_percentage,
                    aspect_ratio, indexChooseLayout, savestate_slot, usb_sharing,
                    read_write, start_scroll, screen_refresh, menu_confirmation,
                    fs_mode >>

\* case SDL_QUIT
HandleQuit ==
    /\ Polled("QUIT")
    /\ stop_menu_loop' = 1
    /\ returnCode' = MENU_RETURN_EXIT
    /\ Quiet
    /\ HandlerFrame
    /\ InLoop
    /\ UNCHANGED << menuItem, volume_percentage, brightness_percentage,
                    aspect_ratio, indexChooseLayout, savestate_slot, usb_sharing,
                    read_write, start_scroll, screen_refresh, menu_confirmation,
                    fs_mode >>

\* the Cancel handler with the else-branch the source has commented out
\* (stop_menu_loop = 1)
HandleCancelLeaves ==
    /\ Polled("B")
    /\ IF menu_confirmation # 0
       THEN /\ menu_confirmation' = 0 /\ screen_refresh' = 1
            /\ UNCHANGED stop_menu_loop
       ELSE /\ stop_menu_loop' = 1
            /\ UNCHANGED << menu_confirmation, screen_refresh >>
    /\ Quiet
    /\ HandlerFrame
    /\ InLoop
    /\ UNCHANGED << menuItem, volume_percentage,
                    brightness_percentage, aspect_ratio, indexChooseLayout,
                    savestate_slot, usb_sharing, read_write, start_scroll,
                    returnCode, fs_mode >>

\* case SDLK_b
HandleCancel ==
    /\ Polled("B")
    /\ IF menu_confirmation # 0
       THEN menu_confirmation' = 0 /\ screen_refresh' = 1
       ELSE UNCHANGED << menu_confirmation, screen_refresh >>
    /\ Quiet
    /\ HandlerFrame
    /\ InLoop
    /\ UNCHANGED << menuItem, stop_menu_loop, volume_percentage,
                    brightness_percentage, aspect_ratio, indexChooseLayout,
                    savestate_slot, usb_sharing, read_write, start_scroll,
                    returnCode, fs_mode >>

\* the handlers without the test on usb_sharing
NavigationNeverLocked == FALSE

\* the test "#ifdef HAS_MENU_USB if (usb_sharing) break;"
NavigationLocked == Has("USB") /\ usb_sharing # 0

\* case SDLK_q, SDLK_ESCAPE
HandleEscape ==
    /\ Polled("ESCAPE")
    /\ stop_menu_loop' = IF NavigationLocked THEN stop_menu_loop ELSE 1
    /\ Quiet
    /\ HandlerFrame
    /\ InLoop
    /\ UNCHANGED << menuItem, volume_percentage, brightness_percentage,
                    aspect_ratio, indexChooseLayout, savestate_slot, usb_sharing,
                    read_write, start_scroll, screen_refresh, menu_confirmation,
                    returnCode, fs_mode >>

\* the skip rule of the Down and Up handlers
SkipUsb(m) == Has("USB") /\ Zone(m) = "USB" /\ usb_data_connected = 0

\* menuItem++ without the wrap
IncrNoWrap(m) == m + 1

\* menuItem++; if (menuItem >= nb_menu_zones) menuItem = 0;
Incr(m) == IF m + 1 >= nb_menu_zones THEN 0 ELSE m + 1

\* menuItem-- without the wrap
DecrNoWrap(m) == m - 1

\* menuItem--; if (menuItem < 0) menuItem = nb_menu_zones - 1;
Decr(m) == IF m - 1 < 0 THEN nb_menu_zones - 1 ELSE m - 1

\* the Down handler's new menuItem
DownItem(m) == IF SkipUsb(Incr(m)) THEN Incr(Incr(m)) ELSE Incr(m)

\* the Up handler's new menuItem
UpItem(m) == IF SkipUsb(Decr(m)) THEN Decr(Decr(m)) ELSE Decr(m)

\* Down that leaves a pending confirmation pending
HandleDownKeepsConfirmation ==
    /\ Polled("DOWN")
    /\ IF NavigationLocked
       THEN UNCHANGED << menuItem, start_scroll, menu_confirmation,
                         screen_refresh >>
       ELSE /\ menuItem' = DownItem(menuItem)
            /\ start_scroll' = 1
            /\ menu_confirmation' = menu_confirmation
            /\ screen_refresh' = 1
    /\ Quiet
    /\ HandlerFrame
    /\ InLoop
    /\ UNCHANGED << stop_menu_loop, volume_percentage, brightness_percentage,
                    aspect_ratio, indexChooseLayout, savestate_slot, usb_sharing,
                    read_write, returnCode, fs_mode >>

\* case SDLK_d, SDLK_DOWN
HandleDown ==
    /\ Polled("DOWN")
    /\ IF NavigationLocked
       THEN UNCHANGED << menuItem, start_scroll, menu_confirmation,
                         screen_refresh >>
       ELSE /\ menuItem' = DownItem(menuItem)
            /\ start_scroll' = 1
            /\ menu_confirmation' = 0
            /\ screen_refresh' = 1
    /\ Quiet
    /\ HandlerFrame
    /\ InLoop
    /\ UNCHANGED << stop_menu_loop, volume_percentage, brightness_percentage,
                    aspect_ratio, indexChooseLayout, savestate_slot, usb_sharing,
                    read_write, returnCode, fs_mode >>

\* case SDLK_u, SDLK_UP
HandleUp ==
    /\ Polled("UP")
    /\ IF NavigationLocked
       THEN UNCHANGED << menuItem, start_scroll, menu_confirmation,
                         screen_refresh >>
       ELSE /\ menuItem' = UpItem(menuItem)
            /\ start_scroll' = -1
            /\ menu_confirmation' = 0
            /\ screen_refresh' = 1
    /\ Quiet
    /\ HandlerFrame
    /\ InLoop
    /\ UNCHANGED << stop_menu_loop, volume_percentage, brightness_percentage,
                    aspect_ratio, indexChooseLayout, savestate_slot, usb_sharing,
                    read_write, returnCode, fs_mode >>

\* default: any other key
HandleOther ==
    /\ Polled("OTHER")
    /\ Quiet
    /\ HandlerFrame
    /\ InLoop
    /\ UNCHANGED << menuItem, stop_menu_loop, volume_percentage,
                    brightness_percentage, aspect_ratio, indexChooseLayout,
                    savestate_slot, usb_sharing, read_write, start_scroll,
                    screen_refresh, menu_confirmation, returnCode, fs_mode >>


(***************************************************************************)
(* Left and Right                                                          *)
(***************************************************************************)
\* The branch of the Left handler's if-else chain taken on zone z.  Each
\* branch exists only under its #ifdef; the SAVE branch of the Left handler
\* stands under #ifdef HAS_MENU_LOAD.
LeftBranch(z) ==
    IF Has("VOLUME") /\ z = "VOLUME" THEN "VOLUME"
    ELSE IF Has("BRIGHTNESS") /\ z = "BRIGHTNESS" THEN "BRIGHTNESS"
    ELSE IF Has("LOAD") /\ z = "SAVE" THEN "SLOT"
    ELSE IF Has("LOAD") /\ z = "LOAD" THEN "SLOT"
    ELSE IF Has("ASPECT_RATIO") /\ z = "ASPECT_RATIO" THEN "ASPECT_RATIO"
    ELSE IF Has("THEME") /\ z = "THEME" THEN "THEME"
    ELSE "NONE"

\* The branch of the Right handler's if-else chain taken on zone z.
RightBranch(z) ==
    IF Has("VOLUME") /\ z = "VOLUME" THEN "VOLUME"
    ELSE IF Has("BRIGHTNESS") /\ z = "BRIGHTNESS" THEN "BRIGHTNESS"
    ELSE IF Has("SAVE") /\ z = "SAVE" THEN "SLOT"
    ELSE IF Has("LOAD") /\ z = "LOAD" THEN "SLOT"
    ELSE IF Has("ASPECT_RATIO") /\ z = "ASPECT_RATIO" THEN "ASPECT_RATIO"
    ELSE IF Has("THEME") /\ z = "THEME" THEN "THEME"
    ELSE "NONE"

\* (v < STEP) ? 0 : (v - STEP)
PercentageDown(v, step) == IF v < step THEN 0 ELSE v - step

\* (v > 100 - STEP) ? 100 : (v + STEP)
PercentageUp(v, step) == IF v > 100 - step THEN 100 ELSE v + step

\* (!savestate_slot) ? (MAX_SAVE_SLOTS - 1) : (savestate_slot - 1)
SlotDown(n) == IF n = 0 THEN MAX_SAVE_SLOTS - 1 ELSE n - 1

\* (savestate_slot + 1) % MAX_SAVE_SLOTS
SlotUp(n) == (n + 1) % MAX_SAVE_SLOTS

\* (!aspect_ratio) ? (NB_ASPECT_RATIOS_TYPES - 1) : (aspect_ratio - 1)
AspectDown(n) == IF n = 0 THEN NB_ASPECT_RATIOS_TYPES - 1 ELSE n - 1

\* (aspect_ratio + 1) % NB_ASPECT_RATIOS_TYPES
AspectUp(n) == (n + 1) % NB_ASPECT_RATIOS_TYPES

\* (!indexChooseLayout) ? (config->layouts_.size() - 1) : (indexChooseLayout - 1)
LayoutDown(n) == IF n = 0 THEN layouts - 1 ELSE n - 1

\* (indexChooseLayout + 1) % config->layouts_.size()
LayoutUp(n) == (n + 1) % layouts

\* The value adjustment common to Left and Right: b is the branch taken,
\* vol .. lay the new values of its five branches, ok whether popen of the
\* set command succeeded.  The in-memory value is assigned before the
\* command is run, whatever its outcome.
Adjust(b, vol, bri, slot, asp, lay, ok) ==
    /\ volume_percentage' = IF b = "VOLUME" THEN vol ELSE volume_percentage
    /\ brightness_percentage' =
          IF b = "BRIGHTNESS" THEN bri ELSE brightness_percentage
    /\ savestate_slot' = IF b = "SLOT" THEN slot ELSE savestate_slot
    /\ aspect_ratio' = IF b = "ASPECT_RATIO" THEN asp ELSE aspect_ratio
    /\ indexChooseLayout' = IF b = "THEME" THEN lay ELSE indexChooseLayout
    /\ screen_refresh' = IF b = "NONE" THEN screen_refresh ELSE 1
    /\ cmd' = IF b = "VOLUME" THEN << << "VOLUME_SET", vol, ok >> >>
              ELSE IF b = "BRIGHTNESS" THEN << << "BRIGHTNESS_SET", bri, ok >> >>
              ELSE << >>
    /\ refresh' = << >>
    /\ HandlerFrame
    /\ InLoop
    /\ UNCHANGED << menuItem, stop_menu_loop, usb_sharing, read_write,
                    start_scroll, menu_confirmation, returnCode, fs_mode >>

\* case SDLK_l, SDLK_LEFT
HandleLeft ==
    /\ Polled("LEFT")
    /\ \E ok \in BOOLEAN :
          Adjust(LeftBranch(Zone(menuItem)),
                 PercentageDown(volume_percentage, STEP_CHANGE_VOLUME),
                 PercentageDown(brightness_percentage, STEP_CHANGE_BRIGHTNESS),
                 SlotDown(savestate_slot),
                 AspectDown(aspect_ratio),
                 LayoutDown(indexChooseLayout),
                 ok)

\* case SDLK_r, SDLK_RIGHT
HandleRight ==
    /\ Polled("RIGHT")
    /\ \E ok \in BOOLEAN :
          Adjust(RightBranch(Zone(menuItem)),
                 PercentageUp(volume_percentage, STEP_CHANGE_VOLUME),
                 PercentageUp(brightness_percentage, STEP_CHANGE_BRIGHTNESS),
                 SlotUp(savestate_slot),
                 AspectUp(aspect_ratio),
                 LayoutUp(indexChooseLayout),
                 ok)


(***************************************************************************)
(* Confirm                                                                 *)
(***************************************************************************)
\* The branch of the Confirm handler's if-else chain taken on zone z.
ConfirmBranch(z) ==
    IF Has("SAVE") /\ z = "SAVE" THEN "SAVE"
    ELSE IF Has("LOAD") /\ z = "LOAD" THEN "LOAD"
    ELSE IF Has("USB") /\ z = "USB" THEN "USB"
    ELSE IF Has("THEME") /\ z = "THEME" THEN "THEME"
    ELSE IF Has("LAUNCHER") /\ z = "LAUNCHER" THEN "LAUNCHER"
    ELSE IF Has("EXIT") /\ z = "EXIT" THEN "EXIT"
    ELSE IF Has("POWERDOWN") /\ z = "POWERDOWN" THEN "POWERDOWN"
    ELSE IF Has("RO_RW") /\ z = "RO_RW" THEN "RO_RW"
    ELSE "NONE"

\* a Confirm handler that never asks
ConfirmedAlways(mc) == TRUE

\* if (menu_confirmation): the test every branch of the handler starts with
Confirmed(mc) == mc # 0

\* the else part of every branch: confirmation is asked
AskConfirmation ==
    /\ menu_confirmation' = 1
    /\ screen_refresh' = 1
    /\ Quiet
    /\ HandlerFrame
    /\ InLoop
    /\ UNCHANGED << menuItem, stop_menu_loop, volume_percentage,
                    brightness_percentage, aspect_ratio, indexChooseLayout,
                    savestate_slot, usb_sharing, read_write, start_scroll,
                    returnCode, fs_mode >>

\* a confirmed Save or Load that sets the return code of the Exit branch
ConfirmSaveLoadExits ==
    /\ refresh' = << Refresh(1) >>
    /\ stop_menu_loop' = 1
    /\ returnCode' = MENU_RETURN_EXIT
    /\ cmd' = << >>
    /\ HandlerFrame
    /\ InLoop
    /\ UNCHANGED << menuItem, volume_percentage, brightness_percentage,
                    aspect_ratio, indexChooseLayout, savestate_slot, usb_sharing,
                    read_write, start_scroll, screen_refresh, menu_confirmation,
                    fs_mode >>

\* Save, Load: the progress redraw, then the loop is stopped; the caller
\* saves or loads after FK_RunMenu has returned MENU_RETURN_OK.
ConfirmSaveLoad ==
    /\ refresh' = << Refresh(1) >>
    /\ stop_menu_loop' = 1
    /\ cmd' = << >>
    /\ HandlerFrame
    /\ InLoop
    /\ UNCHANGED << menuItem, volume_percentage, brightness_percentage,
                    aspect_ratio, indexChooseLayout, savestate_slot, usb_sharing,
                    read_write, start_scroll, screen_refresh, menu_confirmation,
                    returnCode, fs_mode >>

\* USB: the mount or unmount command; usb_sharing is toggled if it succeeds
ConfirmUsb(ok) ==
    /\ refresh' = << Refresh(1) >>
    /\ cmd' = << << IF usb_sharing # 0 THEN "USB_UNMOUNT" ELSE "USB_MOUNT", ok >> >>
    /\ usb_sharing' = IF ok THEN (IF usb_sharing # 0 THEN 0 ELSE 1)
                      ELSE usb_sharing
    /\ menu_confirmation' = 0
    /\ screen_refresh' = 1
    /\ HandlerFrame
    /\ InLoop
    /\ UNCHANGED << menuItem, stop_menu_loop, volume_percentage,
                    brightness_percentage, aspect_ratio, indexChooseLayout,
                    savestate_slot, read_write, start_scroll, returnCode,
                    fs_mode >>

\* a confirmed Theme that exports the first layout of the list
ConfirmThemeFirst ==
    /\ refresh' = << Refresh(1) >>
    /\ cmd' = << << "EXPORT_LAYOUT", 0 >> >>
    /\ stop_menu_loop' = 1
    /\ returnCode' = MENU_RETURN_EXIT
    /\ HandlerFrame
    /\ InLoop
    /\ UNCHANGED << menuItem, volume_percentage, brightness_percentage,
                    aspect_ratio, indexChooseLayout, savestate_slot, usb_sharing,
                    read_write, start_scroll, screen_refresh, menu_confirmation,
                    fs_mode >>

\* Theme: the chosen layout is exported, the loop stopped with
\* MENU_RETURN_EXIT
ConfirmTheme ==
    /\ refresh' = << Refresh(1) >>
    /\ cmd' = << << "EXPORT_LAYOUT", indexChooseLayout >> >>
    /\ stop_menu_loop' = 1
    /\ returnCode' = MENU_RETURN_EXIT
    /\ HandlerFrame
    /\ InLoop
    /\ UNCHANGED << menuItem, volume_percentage, brightness_percentage,
                    aspect_ratio, indexChooseLayout, savestate_slot, usb_sharing,
                    read_write, start_scroll, screen_refresh, menu_confirmation,
                    fs_mode >>

\* Launcher: the command is run and its result dropped
ConfirmLauncher(ok) ==
    /\ refresh' = << Refresh(1) >>
    /\ cmd' = << << "SET_LAUNCHER", ok >> >>
    /\ stop_menu_loop' = 1
    /\ returnCode' = MENU_RETURN_EXIT
    /\ HandlerFrame
    /\ InLoop
    /\ UNCHANGED << menuItem, volume_percentage, brightness_percentage,
                    aspect_ratio, indexChooseLayout, savestate_slot, usb_sharing,
                    read_write, start_scroll, screen_refresh, menu_confirmation,
                    fs_mode >>

\* Exit: no redraw, the loop is stopped with MENU_RETURN_EXIT
ConfirmExit ==
    /\ stop_menu_loop' = 1
    /\ returnCode' = MENU_RETURN_EXIT
    /\ Quiet
    /\ HandlerFrame
    /\ InLoop
    /\ UNCHANGED << menuItem, volume_percentage, brightness_percentage,
                    aspect_ratio, indexChooseLayout, savestate_slot, usb_sharing,
                    read_write, start_scroll, screen_refresh, menu_confirmation,
                    fs_mode >>

\* Powerdown: the command is run and FK_RunMenu returns MENU_RETURN_EXIT from
\* inside the handler, whether popen succeeded or not; the code after the
\* loop is not executed.
ConfirmPowerdown(ok) ==
    /\ refresh' = << Refresh(1) >>
    /\ cmd' = << << "POWERDOWN", ok >> >>
    /\ pc' = "app"
    /\ lastReturn' = MENU_RETURN_EXIT
    /\ LocalsGone
    /\ HandlerFrame
    /\ UNCHANGED << menuItem, stop_menu_loop, volume_percentage,
                    brightness_percentage, aspect_ratio, indexChooseLayout,
                    savestate_slot, usb_sharing, read_write, fs_mode >>

\* RO/RW: system() of the command; read_write is toggled unless system()
\* returned a negative value; the mode changes if the command succeeded
ConfirmRoRw(st) ==
    /\ refresh' = << Refresh(1) >>
    /\ cmd' = << << IF read_write # 0 THEN "RO" ELSE "RW", st >> >>
    /\ read_write' = IF st < 0 THEN read_write
                     ELSE (IF read_write # 0 THEN 0 ELSE 1)
    /\ fs_mode' = IF st = 0 THEN (IF read_write # 0 THEN "RO" ELSE "RW")
                  ELSE fs_mode
    /\ menu_confirmation' = 0
    /\ screen_refresh' = 1
    /\ HandlerFrame
    /\ InLoop
    /\ UNCHANGED << menuItem, stop_menu_loop, volume_percentage,
                    brightness_percentage, aspect_ratio, indexChooseLayout,
                    savestate_slot, usb_sharing, start_scroll, returnCode >>

\* a zone with nothing to confirm
ConfirmNothing ==
    /\ Quiet
    /\ HandlerFrame
    /\ InLoop
    /\ UNCHANGED << menuItem, stop_menu_loop, volume_percentage,
                    brightness_percentage, aspect_ratio, indexChooseLayout,
                    savestate_slot, usb_sharing, read_write, start_scroll,
                    screen_refresh, menu_confirmation, returnCode, fs_mode >>

\* the confirmed part of branch b
ConfirmedAction(b) ==
    \E ok \in BOOLEAN, st \in SystemResults :
        CASE b \in { "SAVE", "LOAD" } -> ConfirmSaveLoad
          [] b = "USB" -> ConfirmUsb(ok)
          [] b = "THEME" -> ConfirmTheme
          [] b = "LAUNCHER" -> ConfirmLauncher(ok)
          [] b = "EXIT" -> ConfirmExit
          [] b = "POWERDOWN" -> ConfirmPowerdown(ok)
          [] b = "RO_RW" -> ConfirmRoRw(st)

\* case SDLK_a, SDLK_RETURN
HandleConfirm ==
    /\ Polled("A")
    /\ LET b == ConfirmBranch(Zone(menuItem))
       IN  IF b = "NONE" THEN ConfirmNothing
           ELSE IF Confirmed(menu_confirmation) THEN ConfirmedAction(b)
           ELSE AskConfirmation

(***************************************************************************)
(* The scroll effect and the frame's redraw                                *)
(***************************************************************************)
\* the scroll effect without the start_scroll tests
ScrollAdvanceNoStart(sc, st) ==
    IF sc > 0 THEN sc + MIN(SCROLL_SPEED_PX, MENU_ZONE_HEIGHT - sc)
    ELSE IF sc < 0 THEN sc - MIN(SCROLL_SPEED_PX, MENU_ZONE_HEIGHT + sc)
    ELSE sc

\* "Handle Scroll effect", before the commit test
ScrollAdvance(sc, st) ==
    IF sc > 0 \/ st > 0 THEN sc + MIN(SCROLL_SPEED_PX, MENU_ZONE_HEIGHT - sc)
    ELSE IF sc < 0 \/ st < 0 THEN sc - MIN(SCROLL_SPEED_PX, MENU_ZONE_HEIGHT + sc)
    ELSE sc

\* the commit test with strict inequalities
ScrollDoneStrict(sc) == sc > MENU_ZONE_HEIGHT \/ sc < -MENU_ZONE_HEIGHT

\* if (scroll >= MENU_ZONE_HEIGHT || scroll <= -MENU_ZONE_HEIGHT)
ScrollDone(sc) == sc >= MENU_ZONE_HEIGHT \/ sc <= -MENU_ZONE_HEIGHT

\* The rest of the iteration once the events are drained: the scroll effect,
\* the frame delay, the redraw if one was requested.
FrameStep ==
    /\ NoEvent
    /\ pc = "step"
    /\ LET moving == scroll # 0 \/ start_scroll # 0
           sc == ScrollAdvance(scroll, start_scroll)
           done == ScrollDone(sc)
           draw == screen_refresh # 0 \/ moving \/ done
       IN  /\ scroll' = IF done THEN 0 ELSE sc
           /\ prevItem' = IF done THEN menuItem ELSE prevItem
           /\ start_scroll' = IF moving THEN 0 ELSE start_scroll
           /\ frames' = IF moving THEN frames + 1 ELSE frames
           /\ refresh' =
                 IF draw
                 THEN << [ Refresh(0) EXCEPT !.scroll = scroll',
                                             !.prevItem = prevItem' ] >>
                 ELSE << >>
    /\ screen_refresh' = 0
    /\ cmd' = << >>
    /\ pc' = "top"
    /\ SessionFrame
    /\ UNCHANGED << menuItem, stop_menu_loop, volume_percentage,
                    brightness_percentage, aspect_ratio, indexChooseLayout,
                    savestate_slot, usb_sharing, read_write, background_screen,
                    backup_key_repeat, menu_confirmation, returnCode, queue,
                    key_repeat, fs_mode, lastReturn >>

(***************************************************************************)
(* The specification                                                       *)
(***************************************************************************)
Next ==
    \/ Arrive
    \/ FK_InitMenu
    \/ FK_EndMenu
    \/ MainQuit
    \/ MainKeyDown
    \/ MainLoopEnd
    \/ FK_RunMenu
    \/ LoopContinue
    \/ LoopExit
    \/ PollEmpty
    \/ HandleQuit
    \/ HandleCancel
    \/ HandleEscape
    \/ HandleDown
    \/ HandleUp
    \/ HandleLeft
    \/ HandleRight
    \/ HandleConfirm
    \/ HandleOther
    \/ FrameStep

Spec == Init /\ [][Next]_vars

(***************************************************************************)
(* The start of a session with the two queries, no event posted            *)
(***************************************************************************)
\* A build with HAS_MENU_VOLUME and HAS_MENU_BRIGHTNESS, used through the
\* API.
InitStart ==
    /\ driver = "lib"
    /\ enabled = { "VOLUME", "BRIGHTNESS" }
    /\ layouts = 1
    /\ fs_mode = "RO"
    /\ Initialisers
    /\ bar = NoBar

\* The menu is initialised, opened and left idle, and ended after a start
\* that failed.
NextStart ==
    \/ FK_InitMenu
    \/ FK_EndMenu
    \/ FK_RunMenu
    \/ LoopContinue
    \/ PollEmpty
    \/ FrameStep

SpecStart == InitStart /\ [][NextStart]_vars

(***************************************************************************)
(* Sessions where several events wait in the queue                         *)
(***************************************************************************)
\* A build with HAS_MENU_EXIT and HAS_MENU_POWERDOWN, used through the API.
InitDrain ==
    /\ driver = "lib"
    /\ enabled = { "EXIT", "POWERDOWN" }
    /\ layouts = 1
    /\ fs_mode = "RO"
    /\ Initialisers
    /\ bar = NoBar

\* Events are posted as in Arrive, up to MaxDrainQueue of them waiting.
ArriveDrain ==
    /\ NoEvent
    /\ pc \in { "app", "poll" } \/ scroll # 0
    /\ Len(queue) < MaxDrainQueue
    /\ \E e \in Events : queue' = Append(queue, e)
    /\ Quiet
    /\ UNCHANGED << statics, locals, driver, enabled, layouts, bar, exit,
                    key_repeat, fs_mode, frames, lastReturn >>

NextDrain ==
    \/ ArriveDrain
    \/ FK_InitMenu
    \/ FK_EndMenu
    \/ FK_RunMenu
    \/ LoopContinue
    \/ LoopExit
    \/ PollEmpty
    \/ HandleQuit
    \/ HandleCancel
    \/ HandleEscape
    \/ HandleDown
    \/ HandleUp
    \/ HandleLeft
    \/ HandleRight
    \/ HandleConfirm
    \/ HandleOther
    \/ FrameStep

SpecDrain == InitDrain /\ [][NextDrain]_vars

(***************************************************************************)
(* Calls of draw_progress_bar                                              *)
(***************************************************************************)
\* A build with HAS_MENU_VOLUME, the function about to be called with
\* arguments of the bounded sets.
InitBar ==
    /\ driver = "lib"
    /\ enabled = { "VOLUME" }
    /\ layouts = 1
    /\ fs_mode = "RO"
    /\ Initialisers
    /\ bar \in BarCalls

\* The function runs: x, width and nb_bars are clamped.
\* When the clamped bar count is 0, width / nb_bars divides by zero
\* (undefined behaviour): the call traps, or the division yields some
\* value and the loops, which run nb_full_bars = 0 and nb_bars = 0 times,
\* draw nothing.
draw_progress_bar ==
    /\ bar.at = "called"
    /\ LET x == BarX(bar.surface_w, bar.x)
           width == BarWidth(bar.surface_w, bar.x, bar.width)
           nb == BarCount(bar.nb_bars, width)
       IN  IF nb = 0
           THEN \E out \in { "trapped", "returned" } :
                   bar' = [ bar EXCEPT !.at = out, !.c_x = x,
                                       !.c_width = width, !.c_nb_bars = nb ]
           ELSE bar' = [ bar EXCEPT !.at = "returned", !.c_x = x,
                                    !.c_width = width, !.c_nb_bars = nb,
                                    !.drawn = BarRects(x, width, nb,
                                                       bar.percentage) ]
    /\ UNCHANGED << statics, locals, world, observed >>

NextBar == draw_progress_bar

SpecBar == InitBar /\ [][NextBar]_vars


(***************************************************************************)
(* Properties                                                              *)
(***************************************************************************)
Abs(x) == IF x < 0 THEN -x ELSE x

\* a session is open: FK_RunMenu is in its main loop
InSession == pc \in { "top", "poll", "step" }

\* the zone types whose Confirm branch asks for a confirmation
GatedZones ==
    { "SAVE", "LOAD", "USB", "THEME", "LAUNCHER", "EXIT", "POWERDOWN", "RO_RW" }

\* the commands that are the action of a zone of type z
ZoneCommands(z) ==
    CASE z = "USB" -> { "USB_MOUNT", "USB_UNMOUNT" }
      [] z = "THEME" -> { "EXPORT_LAYOUT" }
      [] z = "LAUNCHER" -> { "SET_LAUNCHER" }
      [] z = "POWERDOWN" -> { "POWERDOWN" }
      [] z = "RO_RW" -> { "RO", "RW" }
      [] OTHER -> { }

GatedCommands == UNION { ZoneCommands(z) : z \in GatedZones }

\* C1: in a session, a command that is the action of a zone is issued only by
\* a Confirm handled on that zone with menu_confirmation already 1, and the
\* loop is stopped by a Confirm only with menu_confirmation already 1; a
\* Confirm handled with menu_confirmation 0 sets menu_confirmation to 1 and
\* requests a redraw on a gated zone, and changes nothing else.
C1_ConfirmGate ==
    [][ /\ (InSession /\ cmd' # << >> /\ cmd'[1][1] \in GatedCommands)
           => /\ ev' = "A"
              /\ menu_confirmation = 1
              /\ cmd'[1][1] \in ZoneCommands(Zone(menuItem))
        /\ (ev' = "A" /\ menu_confirmation = 0)
           => /\ cmd' = << >>
              /\ refresh' = << >>
              /\ IF Zone(menuItem) \in GatedZones
                 THEN menu_confirmation' = 1 /\ screen_refresh' = 1
                 ELSE UNCHANGED << menu_confirmation, screen_refresh >>
              /\ UNCHANGED << statics, pc, prevItem, scroll, start_scroll,
                              returnCode, lastReturn, key_repeat, fs_mode >>
      ]_vars

\* C1 witness: a confirmed mount has just been run
C1_Witness ==
    /\ ev = "A"
    /\ cmd = << << "USB_MOUNT", TRUE >> >>
    /\ usb_sharing = 1
    /\ menu_confirmation = 0

\* the index Down leads to from m, written with modulo
DownTarget(m) ==
    LET m1 == (m + 1) % nb_menu_zones
    IN  IF Zone(m1) = "USB" /\ usb_data_connected = 0
        THEN (m1 + 1) % nb_menu_zones
        ELSE m1

\* the index Up leads to from m, written with modulo
UpTarget(m) ==
    LET m1 == (m - 1) % nb_menu_zones
    IN  IF Zone(m1) = "USB" /\ usb_data_connected = 0
        THEN (m1 - 1) % nb_menu_zones
        ELSE m1

\* C2: with USB sharing not active, Down moves menuItem to (menuItem + 1) mod
\* nb_menu_zones and Up to (menuItem - 1) mod nb_menu_zones, one more step
\* being taken in the same direction from a USB zone that is not connected;
\* with one zone the index stays 0.
C2_DownUpWrap ==
    [][ /\ (ev' = "DOWN" /\ usb_sharing = 0)
           => /\ menuItem' = DownTarget(menuItem)
              /\ (nb_menu_zones = 1 => menuItem' = 0)
        /\ (ev' = "UP" /\ usb_sharing = 0)
           => /\ menuItem' = UpTarget(menuItem)
              /\ (nb_menu_zones = 1 => menuItem' = 0)
      ]_vars

\* C2 witness: Down from the zone before a last, unconnected USB zone has
\* skipped it and wrapped to 0
C2_Witness ==
    /\ ev = "DOWN"
    /\ nb_menu_zones >= 2
    /\ Zone(nb_menu_zones - 1) = "USB"
    /\ usb_data_connected = 0
    /\ prevItem = nb_menu_zones - 2
    /\ menuItem = 0

\* C3: while a session is open, menuItem and prevItem are indices of the
\* (non-empty) zone list.
C3_IndicesInRange ==
    InSession =>
        /\ nb_menu_zones > 0
        /\ menuItem \in 0..(nb_menu_zones - 1)
        /\ prevItem \in 0..(nb_menu_zones - 1)

\* C3 witness: Up from zone 0 has wrapped to the last of at least three zones
C3_Witness ==
    /\ ev = "UP"
    /\ nb_menu_zones >= 3
    /\ prevItem = 0
    /\ menuItem = nb_menu_zones - 1

\* C4: at the end of an iteration of the main loop, scroll = 0 implies
\* prevItem = menuItem.
C4_PrevFollowsScroll ==
    pc = "top" => (scroll = 0 => prevItem = menuItem)

\* C4 witness: the iteration that ends a scroll to the last zone ends with
\* scroll 0 and prevItem moved to menuItem
C4_Witness ==
    /\ pc = "top"
    /\ scroll = 0
    /\ frames = 8
    /\ nb_menu_zones >= 2
    /\ menuItem = nb_menu_zones - 1
    /\ prevItem = menuItem

\* C5: in a frame in which a scroll starts or goes on, |scroll| grows by
\* min(SCROLL_SPEED_PX, MENU_ZONE_HEIGHT - |scroll|) in the direction of the
\* key; when it reaches MENU_ZONE_HEIGHT, in that same frame, scroll is reset
\* to 0 and prevItem set to menuItem, and that frame is the 8th of the scroll;
\* the offset at a frame's end is strictly between -240 and 240.
C5_ScrollMonotonic ==
    [][ (pc = "step" /\ pc' = "top" /\ (scroll # 0 \/ start_scroll # 0))
        => LET dir == IF scroll > 0 \/ (scroll = 0 /\ start_scroll > 0)
                      THEN 1 ELSE -1
               a == Abs(scroll)
               b == a + MIN(SCROLL_SPEED_PX, MENU_ZONE_HEIGHT - a)
           IN  /\ b > a
               /\ b <= MENU_ZONE_HEIGHT
               /\ (scroll # 0 => start_scroll = 0)
               /\ IF b = MENU_ZONE_HEIGHT
                  THEN scroll' = 0 /\ prevItem' = menuItem /\ frames' = 8
                  ELSE scroll' = dir * b /\ prevItem' = prevItem /\ frames' < 8
               /\ -240 < scroll' /\ scroll' < 240
      ]_vars

\* C5 witness: the 8th frame of an upward scroll has committed it
C5_Witness ==
    /\ pc = "top"
    /\ frames = 8
    /\ scroll = 0
    /\ refresh # << >>
    /\ prevItem = menuItem
    /\ nb_menu_zones >= 2

\* C6 as stated: while a session is open, whatever the query commands
\* printed, volume_percentage and brightness_percentage are in [0,100].
C6_PercentagesInRange ==
    InSession =>
        /\ volume_percentage \in 0..100
        /\ brightness_percentage \in 0..100

\* C7 as stated: the slot, the aspect ratio and the layout index stay in
\* their ranges, and on a zone that shows one of them Right from the last
\* value leads to 0 and Left from 0 leads to the last value.
C7_SelectorsWrap ==
    /\ [](/\ savestate_slot \in 0..(MAX_SAVE_SLOTS - 1)
          /\ aspect_ratio \in 0..(NB_ASPECT_RATIOS_TYPES - 1)
          /\ indexChooseLayout \in 0..(layouts - 1))
    /\ [][ /\ (ev' = "RIGHT" /\ Zone(menuItem) \in { "SAVE", "LOAD" }
                /\ savestate_slot = MAX_SAVE_SLOTS - 1) => savestate_slot' = 0
           /\ (ev' = "LEFT" /\ Zone(menuItem) \in { "SAVE", "LOAD" }
                /\ savestate_slot = 0) => savestate_slot' = MAX_SAVE_SLOTS - 1
           /\ (ev' = "RIGHT" /\ Zone(menuItem) = "ASPECT_RATIO"
                /\ aspect_ratio = NB_ASPECT_RATIOS_TYPES - 1) => aspect_ratio' = 0
           /\ (ev' = "LEFT" /\ Zone(menuItem) = "ASPECT_RATIO"
                /\ aspect_ratio = 0)
              => aspect_ratio' = NB_ASPECT_RATIOS_TYPES - 1
           /\ (ev' = "RIGHT" /\ Zone(menuItem) = "THEME"
                /\ indexChooseLayout = layouts - 1) => indexChooseLayout' = 0
           /\ (ev' = "LEFT" /\ Zone(menuItem) = "THEME"
                /\ indexChooseLayout = 0) => indexChooseLayout' = layouts - 1
         ]_vars

\* C8 as stated: a Left or Right handled on the Volume or Brightness zone
\* whose set command fails leaves the in-memory value as it was.
C8_NoOptimisticUpdate ==
    [][ (ev' \in { "LEFT", "RIGHT" } /\ cmd' # << >>
         /\ cmd'[1][1] \in { "VOLUME_SET", "BRIGHTNESS_SET" } /\ ~cmd'[1][3])
        => UNCHANGED << volume_percentage, brightness_percentage >>
      ]_vars

\* C9: a Cancel handled with menu_confirmation 1 sets it to 0 and requests a
\* redraw; handled with menu_confirmation 0 it changes nothing; either way
\* menuItem, prevItem, scroll, stop_menu_loop, the return code and the
\* per-zone values are unchanged and no command is issued.
C9_CancelOnlyClears ==
    [][ ev' = "B"
        => /\ IF menu_confirmation = 1
              THEN menu_confirmation' = 0 /\ screen_refresh' = 1
              ELSE UNCHANGED << menu_confirmation, screen_refresh >>
           /\ cmd' = << >>
           /\ refresh' = << >>
           /\ UNCHANGED << statics, pc, prevItem, scroll, start_scroll,
                           returnCode, lastReturn, key_repeat, fs_mode >>
      ]_vars

\* C9 witness: a Cancel has been handled on a zone that asks for a
\* confirmation, none is pending and a redraw is requested
C9_Witness ==
    /\ ev = "B"
    /\ pc = "poll"
    /\ Zone(menuItem) \in GatedZones
    /\ menu_confirmation = 0
    /\ screen_refresh = 1
    /\ stop_menu_loop = 0

\* C10: while usb_sharing is 1 an Up, Down or Escape changes no state, and in
\* a session usb_sharing goes from 1 to 0 only by a Confirm handled with
\* menu_confirmation 1 whose unmount command succeeded.
C10_SharingLocksNavigation ==
    [][ /\ (ev' \in { "UP", "DOWN", "ESCAPE" } /\ usb_sharing = 1)
           => /\ cmd' = << >>
              /\ refresh' = << >>
              /\ UNCHANGED << statics, locals, key_repeat, fs_mode, lastReturn >>
        /\ (InSession /\ usb_sharing = 1 /\ usb_sharing' = 0)
           => /\ ev' = "A"
              /\ menu_confirmation = 1
              /\ Zone(menuItem) = "USB"
              /\ cmd' = << << "USB_UNMOUNT", TRUE >> >>
      ]_vars

\* C10 witness: a Down has been handled while sharing, and the session is as
\* it was: no scroll started, the selection on the USB zone
C10_Witness ==
    /\ ev = "DOWN"
    /\ pc = "poll"
    /\ usb_sharing = 1
    /\ start_scroll = 0
    /\ Zone(menuItem) = "USB"
    /\ prevItem = menuItem

\* C11 as stated: an Escape handled while usb_sharing is 0 stops the loop
\* with the return code Ok, and a session that is stopping with Ok returns
\* Ok.
C11_EscapeReturnsOk ==
    [][ /\ (ev' = "ESCAPE" /\ usb_sharing = 0)
           => (stop_menu_loop' = 1 /\ returnCode' = MENU_RETURN_OK)
        /\ (InSession /\ stop_menu_loop = 1 /\ returnCode = MENU_RETURN_OK)
           => IF pc' \in { "top", "poll", "step" }
              THEN stop_menu_loop' = 1 /\ returnCode' = MENU_RETURN_OK
              ELSE lastReturn' = MENU_RETURN_OK
      ]_vars

\* FK_RunMenu returns returnCode when the loop has stopped
ReturnsReturnCode == (pc = "top" /\ pc' = "app") => lastReturn' = returnCode

\* once the return code is Exit the session stays stopped and returns Exit
ExitIsFinal ==
    (InSession /\ returnCode = MENU_RETURN_EXIT)
    => IF pc' \in { "top", "poll", "step" }
       THEN stop_menu_loop' = 1 /\ returnCode' = MENU_RETURN_EXIT
       ELSE lastReturn' = MENU_RETURN_EXIT

C13_ThemeExportsAndExits ==
    [][ /\ (ev' = "A" /\ menu_confirmation = 1 /\ Zone(menuItem) = "THEME")
           => /\ cmd' = << << "EXPORT_LAYOUT", indexChooseLayout >> >>
              /\ indexChooseLayout \in 0..(layouts - 1)
              /\ stop_menu_loop' = 1
              /\ returnCode' = MENU_RETURN_EXIT
        /\ (InSession /\ cmd' # << >> /\ cmd'[1][1] = "EXPORT_LAYOUT")
           => (ev' = "A" /\ menu_confirmation = 1 /\ Zone(menuItem) = "THEME")
        /\ ExitIsFinal
      ]_vars

\* C13 witness: the second layout has been exported
C13_Witness ==
    /\ ev = "A"
    /\ Zone(menuItem) = "THEME"
    /\ indexChooseLayout = 1
    /\ cmd = << << "EXPORT_LAYOUT", 1 >> >>
    /\ stop_menu_loop = 1
    /\ returnCode = MENU_RETURN_EXIT

\* C14: an SDL_QUIT consumed in a session, whatever menu_confirmation and
\* usb_sharing are, stops the loop and sets the return code to Exit; no
\* iteration starts once the loop is stopped, and FK_RunMenu returns Exit.
C14_QuitReturnsExit ==
    [][ /\ ev' = "QUIT"
           => /\ stop_menu_loop' = 1
              /\ returnCode' = MENU_RETURN_EXIT
              /\ UNCHANGED << menu_confirmation, usb_sharing >>
        /\ (pc = "top" /\ stop_menu_loop = 1 /\ pc' # pc)
           => (pc' = "app" /\ lastReturn' = returnCode)
        /\ ExitIsFinal
      ]_vars

\* C14 witness: FK_RunMenu has returned Exit from a session stopped while
\* sharing, during which no command or confirmed action set the return code
C14_Witness ==
    /\ pc = "app"
    /\ lastReturn = MENU_RETURN_EXIT
    /\ usb_sharing = 1
    /\ enabled = { "USB" }

\* the return code Exit in a session whose zone list has no zone that sets
\* it: an SDL_QUIT has been consumed in this session
QuitConsumed ==
    /\ InSession
    /\ returnCode = MENU_RETURN_EXIT
    /\ \A i \in 0..(nb_menu_zones - 1) :
          Zone(i) \notin { "THEME", "LAUNCHER", "EXIT" }

\* C15 as stated: once an SDL_QUIT has been consumed, an event handled before
\* FK_RunMenu returns adjusts no value, sets no confirmation, moves no
\* selection and runs no command or action.
C15_QuitHonoredAtOnce ==
    [][ (QuitConsumed /\ ev' # "none")
        => /\ cmd' = << >>
           /\ refresh' = << >>
           /\ InSession'
           /\ UNCHANGED << menuItem, volume_percentage, brightness_percentage,
                           aspect_ratio, indexChooseLayout, savestate_slot,
                           usb_sharing, read_write, menu_confirmation,
                           start_scroll >>
      ]_vars

\* C16 as stated: a confirmed action on the USB zone toggles usb_sharing if
\* and only if the mount or unmount command succeeded, one on the RO/RW zone
\* toggles read_write if and only if the RO or RW command succeeded; either
\* way menu_confirmation is 0 afterwards and stop_menu_loop and menuItem are
\* unchanged.
C16_ToggleIffSuccess ==
    [][ /\ (ev' = "A" /\ menu_confirmation = 1 /\ Zone(menuItem) = "USB")
           => /\ (usb_sharing' # usb_sharing) <=> (cmd'[1][2] = TRUE)
              /\ menu_confirmation' = 0
              /\ UNCHANGED << stop_menu_loop, menuItem >>
        /\ (ev' = "A" /\ menu_confirmation = 1 /\ Zone(menuItem) = "RO_RW")
           => /\ (read_write' # read_write) <=> (cmd'[1][2] = 0)
              /\ menu_confirmation' = 0
              /\ UNCHANGED << stop_menu_loop, menuItem >>
      ]_vars

\* C17 as stated: a confirmed Powerdown whose command cannot be run leaves
\* the session open, on the Powerdown zone, with menu_confirmation 0 and the
\* loop not stopped by it.
C17_PowerdownFailureStays ==
    [][ (/\ ev' = "A"
         /\ menu_confirmation = 1
         /\ Zone(menuItem) = "POWERDOWN"
         /\ cmd' = << << "POWERDOWN", FALSE >> >>)
        => /\ pc' = "poll"
           /\ menu_confirmation' = 0
           /\ UNCHANGED << menuItem, stop_menu_loop, returnCode >>
      ]_vars

\* C18: the main loop is entered only with the snapshot allocated; a start of
\* FK_RunMenu that does not enter the loop returns Error with the snapshot
\* NULL, no event consumed and nothing drawn; a session that has entered the
\* loop never returns Error.
C18_AllocFailureReturnsError ==
    [][ /\ (~InSession /\ InSession')
           => /\ background_screen' = "surface"
              /\ lastReturn' = "none"
              /\ pc' = "top"
        /\ (\/ pc = "run" /\ pc' = "app"
            \/ lastReturn # MENU_RETURN_ERROR /\ lastReturn' = MENU_RETURN_ERROR)
           => /\ lastReturn' = MENU_RETURN_ERROR
              /\ ~InSession
              /\ background_screen' = "NULL"
              /\ queue' = queue
              /\ ev' = "none"
              /\ refresh' = << >>
        /\ InSession => lastReturn' # MENU_RETURN_ERROR
      ]_vars

\* C18 witness: FK_RunMenu has returned Error, the event that was queued
\* when it was called is still queued
C18_Witness ==
    /\ pc = "app"
    /\ driver = "lib"
    /\ lastReturn = MENU_RETURN_ERROR
    /\ background_screen = "NULL"
    /\ queue # << >>
    /\ ev = "none"
    /\ key_repeat = "menu"

\* the query command c could not be run, or what it printed does not start
\* with a decimal digit
QueryFailed(c) == ~c[2] \/ c[3] = << >> \/ ~IsDigit(Head(c[3]))

\* C19 as stated: at a session start, a volume query that cannot be run or
\* whose output does not start with a decimal digit gives volume_percentage
\* 50, the same for brightness, whatever the other query did, and the start
\* goes on into the main loop (unless the snapshot cannot be allocated).
C19_QueryFailureGivesDefault ==
    [][ \A i \in 1..Len(cmd') :
            /\ (cmd'[i][1] = "VOLUME_GET" /\ QueryFailed(cmd'[i]))
               => /\ volume_percentage' = 50
                  /\ (pc' = "top" \/ lastReturn' = MENU_RETURN_ERROR)
            /\ (cmd'[i][1] = "BRIGHTNESS_GET" /\ QueryFailed(cmd'[i]))
               => /\ brightness_percentage' = 50
                  /\ (pc' = "top" \/ lastReturn' = MENU_RETURN_ERROR)
      ]_vars

\* C20: at session start, when USB is not connected usb_sharing is false
\* and a remembered USB zone is replaced by zone 0; when USB is connected
\* and sharing is detected the selected zone is the (first) USB zone,
\* whatever zone was remembered; in every other case menuItem is the value
\* the previous session left
C20_StartSanity ==
    [][ (~InSession /\ InSession')
        => /\ usb_data_connected' = 0
              => /\ usb_sharing' = 0
                 /\ menuItem' = IF Zone(menuItem) = "USB" THEN 0 ELSE menuItem
           /\ (usb_data_connected' # 0 /\ usb_sharing' # 0)
              => /\ Zone(menuItem') = "USB"
                 /\ \A j \in 0..(menuItem' - 1) : Zone(j) # "USB"
           /\ (usb_data_connected' # 0 /\ usb_sharing' = 0)
              => menuItem' = menuItem
      ]_vars

\* C20 witness: a session has just started with sharing detected, the USB
\* zone is selected and it is not the first zone
C20_Witness ==
    /\ pc = "top"
    /\ frames = 0
    /\ ev = "none"
    /\ lastReturn = "none"
    /\ usb_data_connected = 1
    /\ usb_sharing = 1
    /\ Zone(menuItem) = "USB"
    /\ menuItem > 0
    /\ prevItem = menuItem
    /\ screen_refresh = 1

\* C21: a step that changes menuItem leaves menu_confirmation at 0, and
\* menu_confirmation is 1 after a step only if the selected zone did not
\* change in it and either it was 1 before or the step handled a Confirm: a
\* pending confirmation always belongs to the selected zone
C21_ConfirmationFollowsZone ==
    [][ /\ menuItem' # menuItem => menu_confirmation' = 0
        /\ (InSession /\ ev' \in { "DOWN", "UP" } /\ ~NavigationLocked)
           => menu_confirmation' = 0
        /\ menu_confirmation' = 1
           => /\ menuItem' = menuItem
              /\ idx_menus' = idx_menus
              /\ menu_confirmation = 1 \/ ev' = "A"
      ]_vars

\* C21 witness: Down has just moved the selection away from a confirm-gated
\* zone and no confirmation is pending
C21_Witness ==
    /\ InSession
    /\ ev = "DOWN"
    /\ menuItem # prevItem
    /\ Zone(prevItem) \in GatedZones
    /\ start_scroll = 1
    /\ menu_confirmation = 0

\* C22: on the Save zone, and on the Load zone, Left replaces savestate_slot
\* by its predecessor modulo MAX_SAVE_SLOTS and Right by its successor
\* modulo MAX_SAVE_SLOTS, whichever zone types are enabled
C22_SlotLeftRight ==
    [][ (InSession /\ Zone(menuItem) \in { "SAVE", "LOAD" })
        => /\ ev' = "LEFT"
              => savestate_slot' =
                    (savestate_slot + MAX_SAVE_SLOTS - 1) % MAX_SAVE_SLOTS
           /\ ev' = "RIGHT"
              => savestate_slot' = (savestate_slot + 1) % MAX_SAVE_SLOTS
      ]_vars

\* C23: a Confirm handled with menu_confirmation = 1 on a confirm-gated
\* zone calls menu_screen_refresh exactly once with menu_action = 1, for
\* the selected zone
C23_ConfirmedRendersAction ==
    [][ (InSession /\ ev' = "A" /\ menu_confirmation = 1
         /\ Zone(menuItem) \in GatedZones)
        => /\ Len(SelectSeq(refresh', LAMBDA r : r.menu_action = 1)) = 1
           /\ \A i \in 1..Len(refresh') :
                 refresh'[i].menu_action = 1
                 => /\ refresh'[i].menuItem = menuItem
                    /\ refresh'[i].menu_confirmation = 1
      ]_vars

\* C24: in a session the zone list is exactly the enabled types in
\* registration order, one zone per type, so nb_menu_zones is the number of
\* enabled types
C24_ZonesOncePerSession ==
    InSession => /\ idx_menus = InitMenuZones(enabled)
                 /\ nb_menu_zones = Cardinality(enabled)

\* C25: whenever FK_RunMenu returns from a session, that is after the
\* snapshot was created, the snapshot has been freed and background_screen
\* is NULL
C25_SnapshotFreedOnReturn ==
    [][ (InSession /\ ~InSession') => background_screen' = "NULL" ]_vars

\* C26: while scroll # 0 no event is consumed, the queue only grows; in a
\* session events leave the queue from its head, one per handler step, so
\* none is lost or reordered; the drain of a frame ends only when the queue
\* is empty, and the frame's render (menu_action = 0) comes after the drain
C26_DrainAfterScroll ==
    [][ /\ (InSession /\ scroll # 0)
           => /\ ev' = "none"
              /\ \/ queue' = queue
                 \/ \E e \in Events : queue' = Append(queue, e)
        /\ InSession
           => \/ queue' = queue
              \/ \E e \in Events : queue' = Append(queue, e)
              \/ /\ pc = "poll"
                 /\ queue # << >>
                 /\ ev' = Head(queue)
                 /\ queue' = Tail(queue)
        /\ (pc = "poll" /\ pc' # "poll") => queue' = << >>
        /\ (\E i \in 1..Len(refresh') : refresh'[i].menu_action = 0)
           => pc = "step"
      ]_vars

\* the rectangles of kind k among those a call filled
BarsOfKind(k) == SelectSeq(bar.drawn, LAMBDA r : r.kind = k)

\* C27: a call of draw_progress_bar draws nb * p / 100 solid bars (p the
\* percentage clamped to 100, nb the bar count clamped to the maximum of
\* the clamped width) and then nb minus that number hollow bars, each a
\* frame and its inner rectangle: solid + hollow is the clamped bar count
C27_SolidPlusHollow ==
    bar.at \in { "returned", "trapped" }
    => LET p == IF bar.percentage > 100 THEN 100 ELSE bar.percentage
           most == (bar.c_width + 1) \div 4
           nb == IF bar.nb_bars > most THEN most ELSE bar.nb_bars
           solid == Len(BarsOfKind("solid"))
           hollow == Len(BarsOfKind("frame"))
       IN  /\ bar.c_nb_bars = nb
           /\ solid = (nb * p) \div 100
           /\ hollow = nb - solid
           /\ solid + hollow = nb
           /\ Len(BarsOfKind("inner")) = hollow
           /\ Len(bar.drawn) = solid + 2 * hollow
           /\ \A i \in 1..Len(bar.drawn) :
                 bar.drawn[i].kind = "solid" <=> i <= solid

\* C27 witness: a call that asked for more bars than fit returned after
\* drawing solid bars followed by hollow bars
C27_Witness ==
    /\ bar.at = "returned"
    /\ bar.nb_bars > bar.c_nb_bars
    /\ Len(BarsOfKind("solid")) >= 2
    /\ Len(BarsOfKind("frame")) >= 2
    /\ bar.drawn[1].kind = "solid"
    /\ bar.drawn[Len(bar.drawn)].kind = "inner"

\* C28: the bars a call of draw_progress_bar draws start at the clamped x
\* and their horizontal extent, from the left edge of the first bar to the
\* right edge of the last one, is at most the clamped width, so that every
\* rectangle lies inside the destination surface
C28_BarsFitWidth ==
    bar.at = "returned"
    => \A i \in 1..Len(bar.drawn) :
          /\ bar.drawn[i].x >= bar.c_x
          /\ bar.drawn[i].x + bar.drawn[i].w - bar.c_x <= bar.c_width
          /\ bar.drawn[i].x + bar.drawn[i].w <= bar.surface_w

\* C29: in main.c's loop an Escape key-down sets exit and opens no menu
\* (FK_InitMenu and FK_RunMenu are not called), and the menu is opened only
\* by a key-down of the open-menu key, which is one of the keys the menu
\* itself does not bind ("OTHER")
C29_OnlyOpenKeyOpens ==
    [][ (driver = "main" /\ pc = "app" /\ queue # << >>
         /\ queue' = Tail(queue))
        => /\ Head(queue) = "ESCAPE"
              => /\ exit' = 1
                 /\ pc' # "run"
                 /\ idx_menus' = idx_menus
           /\ pc' = "run" => Head(queue) = "OTHER"
      ]_vars

\* C30: in a session, usb_sharing true implies that the selected zone is
\* the USB zone and that USB was found connected when the session started
\* (usb_data_connected is only assigned at session start)
C30_SharingOnConnectedUsbZone ==
    (InSession /\ usb_sharing # 0)
    => /\ Zone(menuItem) = "USB"
       /\ usb_data_connected # 0

\* C31: when FK_RunMenu returns from a session with MENU_RETURN_OK, that is
\* without having consumed a quit signal (SDL_QUIT sets the return code to
\* MENU_RETURN_EXIT for the rest of the session), usb_sharing is false
C31_NoReturnWhileSharing ==
    [][ (InSession /\ ~InSession' /\ lastReturn' = MENU_RETURN_OK)
        => usb_sharing' = 0 ]_vars

\* C32: where the zone list has a zone other than USB, no input event is
\* handled with the USB zone selected while USB is not connected, and no
\* mount or unmount command is issued then
C32_NoUsbZoneUnconnected ==
    [][ (InSession /\ ev' # "none" /\ usb_data_connected = 0
         /\ \E i \in 0..(nb_menu_zones - 1) : Zone(i) # "USB")
        => /\ Zone(menuItem) # "USB"
           /\ \A i \in 1..Len(cmd') :
                 cmd'[i][1] \notin { "USB_MOUNT", "USB_UNMOUNT" }
      ]_vars

\* C33: while a confirmation is pending on the Save, Load or Theme zone, a
\* step that changes savestate_slot or indexChooseLayout cancels it, so the
\* second Confirm acts on the values the first Confirm was given for
C33_ConfirmedSelectionKept ==
    [][ (InSession /\ menu_confirmation = 1
         /\ Zone(menuItem) \in { "SAVE", "LOAD", "THEME" })
        => \/ /\ savestate_slot' = savestate_slot
              /\ indexChooseLayout' = indexChooseLayout
           \/ menu_confirmation' = 0
      ]_vars

\* C34: in a session, while scroll # 0 the selected zone is the one a
\* single Down (scroll > 0) or a single Up (scroll < 0) reaches from
\* prevItem
C34_ScrollBetweenNeighbours ==
    (InSession /\ scroll # 0)
    => /\ scroll > 0 => menuItem = DownTarget(prevItem)
       /\ scroll < 0 => menuItem = UpTarget(prevItem)

\* C35: every call of menu_screen_refresh with scroll = 0 is made with
\* prevItem = menuItem
C35_RefreshSameZone ==
    [][ \A i \in 1..Len(refresh') :
           refresh'[i].scroll = 0
           => refresh'[i].prevItem = refresh'[i].menuItem
      ]_vars

\* C36: outside a session the key repeat setting is the application's:
\* every return of FK_RunMenu has restored what was saved at session start
C36_KeyRepeatRestored ==
    ~InSession => key_repeat = "app"

\* read_write says what the file system mode is
ReadWriteAgrees == (read_write # 0) <=> (fs_mode = "RW")

\* C37: a step whose RO/RW commands all succeed keeps read_write equal to
\* the mode of the file system: from a state where they agree (as after the
\* first FK_InitMenu) it leads to a state where they agree
C37_ReadWriteTracksMode ==
    [][ (/\ Has("RO_RW")
         /\ ReadWriteAgrees
         /\ \A i \in 1..Len(cmd') :
               cmd'[i][1] \in { "RO", "RW" } => cmd'[i][2] = 0)
        => ReadWriteAgrees'
      ]_vars

====
